---- MODULE Spec2Model ----
(***************************************************************************)
(* Model of pyrogram's SendMessage.send_message (message dispatch and      *)
(* response resolution) and of ChatPermissions._parse (denial record to    *)
(* allow flags).                                                           *)
(*                                                                         *)
(* Python values are modelled as follows: True / False / None are the      *)
(* strings "True" / "False" / "None"; objects are records carrying their   *)
(* class name in the field "kind"; an absent object is NoneObj.            *)
(***************************************************************************)
EXTENDS Integers, Sequences, FiniteSets, TLC

VARIABLES
    args,       \* per call: the caller's arguments of send_message
    pc,         \* per call: position inside send_message
    message,    \* per call: local `message` (parsed plain text)
    entities,   \* per call: local `entities`
    peer,       \* per call: value of self.resolve_peer(chat_id) for the request
    rpc,        \* per call: the send() invocation: request in flight, outcome
    r,          \* per call: local `r`, assigned when send() returns
    result,     \* per call: the value send_message returned
    error,      \* per call: the exception that left send_message, or "None"
    log,        \* per call: collaborators invoked so far, in order
    rndUsed,    \* ids the shared random-id generator has handed out
    denied,     \* argument of ChatPermissions._parse
    perms       \* value ChatPermissions._parse returned

vars == <<args, pc, message, entities, peer, rpc, r, result, error, log,
          rndUsed, denied, perms>>

sendVars == <<args, pc, message, entities, peer, rpc, r, result, error, log,
              rndUsed>>

----------------------------------------------------------------------------
(* Bounds *)

MaxUpdates == 2

MaxRandomId == 3

----------------------------------------------------------------------------
(* Python primitives *)

NoneObj == [kind |-> "None"]

Truthy(v) == v = "True"

\* Python `not v`
PyNot(v) == IF Truthy(v) THEN "False" ELSE "True"

\* Python `a or b`: the first operand when it is truthy, else the second
PyOr(a, b) == IF Truthy(a) THEN a ELSE b

FlagValues == {"True", "False", "None"}

Count(s, e) == Cardinality({i \in DOMAIN s : s[i] = e})

----------------------------------------------------------------------------
(* ChatPermissions._parse *)

DeniedRecords ==
    [kind : {"ChatBannedRights"},
     send_messages : FlagValues, send_media : FlagValues,
     send_stickers : FlagValues, send_gifs : FlagValues,
     send_games : FlagValues, send_inline : FlagValues,
     embed_links : FlagValues, send_polls : FlagValues,
     change_info : FlagValues, invite_users : FlagValues,
     pin_messages : FlagValues]

CanSendOtherAllDenied(d) ==
    PyNot(IF Truthy(d.send_stickers) \/ Truthy(d.send_gifs)
             \/ Truthy(d.send_games) \/ Truthy(d.send_inline)
          THEN "True" ELSE "False")

CanSendOtherMessages(d) ==
    PyOr(PyNot(d.send_stickers),
         PyOr(PyNot(d.send_gifs),
              PyOr(PyNot(d.send_games), PyNot(d.send_inline))))

ChatPermissionsParseSwapped(d) ==
    IF d.kind = "ChatBannedRights"
    THEN [kind |-> "ChatPermissions",
          can_send_messages |-> PyNot(d.send_messages),
          can_send_media_messages |-> PyNot(d.send_media),
          can_send_other_messages |-> CanSendOtherMessages(d),
          can_add_web_page_previews |-> PyNot(d.embed_links),
          can_send_polls |-> PyNot(d.send_media),
          can_change_info |-> PyNot(d.change_info),
          can_invite_users |-> PyNot(d.invite_users),
          can_pin_messages |-> PyNot(d.pin_messages)]
    ELSE NoneObj

ChatPermissionsParse(d) ==
    IF d.kind = "ChatBannedRights"
    THEN [kind |-> "ChatPermissions",
          can_send_messages |-> PyNot(d.send_messages),
          can_send_media_messages |-> PyNot(d.send_media),
          can_send_other_messages |-> CanSendOtherMessages(d),
          can_add_web_page_previews |-> PyNot(d.embed_links),
          can_send_polls |-> PyNot(d.send_polls),
          can_change_info |-> PyNot(d.change_info),
          can_invite_users |-> PyNot(d.invite_users),
          can_pin_messages |-> PyNot(d.pin_messages)]
    ELSE NoneObj

Unparsed == [kind |-> "unparsed"]

ParsePermissions ==
    /\ perms = Unparsed
    /\ denied # Unparsed
    /\ perms' = ChatPermissionsParse(denied)
    /\ UNCHANGED <<denied, sendVars>>

----------------------------------------------------------------------------
(* Collaborators of send_message: the entity parser, resolve_peer, rnd_id, *)
(* the protocol records and Message._parse                                 *)

\* A text is a sequence of tokens; a token counts the UTF-16 units of its
\* characters.
TokLen(tok) ==
    CASE tok = "**" -> 2
      [] tok = "<b>" -> 3
      [] tok = "</b>" -> 4
      [] OTHER -> 1

RECURSIVE HasLater(_, _, _)
HasLater(text, i, tok) ==
    /\ i <= Len(text)
    /\ (text[i] = tok \/ HasLater(text, i + 1, tok))

\* Markdown-only parsing escapes the HTML the caller wrote, so that only
\* the tags the Markdown pass produces are interpreted.
Escape(text) ==
    [i \in DOMAIN text |->
        CASE text[i] = "<b>" -> "&lt;b&gt;"
          [] text[i] = "</b>" -> "&lt;/b&gt;"
          [] OTHER -> text[i]]

Unescape(tok) ==
    CASE tok = "&lt;b&gt;" -> "<b>"
      [] tok = "&lt;/b&gt;" -> "</b>"
      [] OTHER -> tok

\* First pass: a pair of ** delimiters becomes <b> ... </b>; an unpaired
\* delimiter stays literal.
RECURSIVE MarkdownPass(_, _, _)
MarkdownPass(text, i, open) ==
    IF i > Len(text) THEN <<>>
    ELSE IF text[i] = "**" /\ open
         THEN <<"</b>">> \o MarkdownPass(text, i + 1, FALSE)
    ELSE IF text[i] = "**" /\ HasLater(text, i + 1, "**")
         THEN <<"<b>">> \o MarkdownPass(text, i + 1, TRUE)
    ELSE <<text[i]>> \o MarkdownPass(text, i + 1, open)

\* Second pass: <b> ... </b> becomes a bold entity over the text between
\* the tags; unmatched tags stay literal; no zero-length entity.
RECURSIVE HtmlPass(_, _, _, _, _, _)
HtmlPass(text, i, plain, off, ents, open) ==
    IF i > Len(text) THEN [message |-> plain, entities |-> ents]
    ELSE IF text[i] = "<b>" /\ open < 0 /\ HasLater(text, i + 1, "</b>")
         THEN HtmlPass(text, i + 1, plain, off, ents, off)
    ELSE IF text[i] = "</b>" /\ open >= 0
         THEN HtmlPass(text, i + 1, plain, off,
                       IF off > open
                       THEN Append(ents, [kind |-> "bold", offset |-> open,
                                          length |-> off - open])
                       ELSE ents,
                       -1)
    ELSE HtmlPass(text, i + 1, Append(plain, Unescape(text[i])),
                  off + TokLen(Unescape(text[i])), ents, open)

ParseModes == {"object", "markdown", "html", "None"}

\* self.parser.parse(text, parse_mode): {"message": ..., "entities": ...}
ParserParse(text, mode) ==
    CASE mode = "None" -> [message |-> text, entities |-> <<>>]
      [] mode = "html" -> HtmlPass(text, 1, <<>>, 0, <<>>, -1)
      [] mode = "markdown" ->
            HtmlPass(MarkdownPass(Escape(text), 1, FALSE), 1, <<>>, 0, <<>>, -1)
      [] OTHER -> HtmlPass(MarkdownPass(text, 1, FALSE), 1, <<>>, 0, <<>>, -1)

ChatIds == {"user777", "chat5", "channel9", "me", "nobody"}

\* self.resolve_peer(chat_id): the peer reference, or PeerIdInvalid raised
ResolvePeerRaises(chat_id) == chat_id = "nobody"

ResolvePeer(chat_id) ==
    CASE chat_id = "user777" ->
            [kind |-> "InputPeerUser", user_id |-> 777, access_hash |-> 1]
      [] chat_id = "chat5" -> [kind |-> "InputPeerChat", chat_id |-> 5]
      [] chat_id = "channel9" ->
            [kind |-> "InputPeerChannel", channel_id |-> 9, access_hash |-> 2]
      [] chat_id = "me" -> [kind |-> "InputPeerSelf"]
      [] OTHER -> NoneObj

HasAttr(obj, name) == name \in DOMAIN obj

\* self.rnd_id(): an id the generator has not handed out before
RandomIds == 1..MaxRandomId

FreshIds == RandomIds \ rndUsed

\* reply_markup.write()
MarkupWrite(markup) == "raw." \o markup

\* The responses send() can return
Matching == {"UpdateNewMessage", "UpdateNewChannelMessage",
             "UpdateNewScheduledMessage"}

UpdateKinds == Matching \cup {"UpdateMessageID"}

UpdateAt(kind, k) ==
    IF kind \in Matching
    THEN [kind |-> kind, message |-> [kind |-> "Message", id |-> 100 + k]]
    ELSE [kind |-> kind, id |-> 100 + k]

UpdateSeqs ==
    UNION {{[k \in 1..n |-> UpdateAt(ks[k], k)] : ks \in [1..n -> UpdateKinds]}
           : n \in 0..MaxUpdates}

Users == <<[kind |-> "User", id |-> 777, first_name |-> "old"],
           [kind |-> "User", id |-> 777, first_name |-> "new"]>>

Chats == <<[kind |-> "Chat", id |-> 5]>>

ShortSents ==
    [kind : {"UpdateShortSentMessage"}, id : {42}, date : {1000},
     out : {"True", "None"}]

Batches ==
    [kind : {"Updates"}, updates : UpdateSeqs, users : {Users}, chats : {Chats}]

Responses == ShortSents \cup Batches

SendErrors == {"RPCError", "FloodWait"}

\* {i.id: i for i in seq}: a later record replaces an earlier one of its id
ById(seq) ==
    [k \in {seq[j].id : j \in DOMAIN seq} |->
        seq[CHOOSE j \in DOMAIN seq :
                /\ seq[j].id = k
                /\ \A j2 \in DOMAIN seq : seq[j2].id = k => j2 <= j]]

\* pyrogram.Message._parse(client, message, users, chats, is_scheduled)
MessageParse(raw, users, chats, is_scheduled) ==
    [kind |-> "Message", parsed_from |-> raw, users |-> users,
     chats |-> chats, is_scheduled |-> is_scheduled]

----------------------------------------------------------------------------
(* send_message *)

Texts == {<<"**", "a", "**", "b">>, <<"<b>", "a", "</b>">>}

Args ==
    [chat_id : ChatIds, text : Texts, parse_mode : ParseModes,
     disable_web_page_preview : FlagValues,
     disable_notification : FlagValues,
     reply_to_message_id : {"None", "12345"},
     schedule_date : {"None"},
     reply_markup : {"None", "ReplyKeyboardMarkup"}]

Logged(c, events) == [log EXCEPT ![c] = log[c] \o events]

\* message, entities = self.parser.parse(text, parse_mode).values()
Parse(c) ==
    /\ c \in DOMAIN pc
    /\ pc[c] = "start"
    /\ LET p == ParserParse(args[c].text, args[c].parse_mode)
       IN /\ message' = [message EXCEPT ![c] = p.message]
          /\ entities' = [entities EXCEPT ![c] = p.entities]
    /\ log' = Logged(c, <<"parse">>)
    /\ pc' = [pc EXCEPT ![c] = "parsed"]
    /\ UNCHANGED <<args, peer, rpc, r, result, error, rndUsed, denied, perms>>

\* peer=self.resolve_peer(chat_id), the first argument of the request
ResolveRequestPeer(c) ==
    /\ c \in DOMAIN pc
    /\ pc[c] = "parsed"
    /\ log' = Logged(c, <<"resolve_peer">>)
    /\ IF ResolvePeerRaises(args[c].chat_id)
       THEN /\ error' = [error EXCEPT ![c] = "PeerIdInvalid"]
            /\ pc' = [pc EXCEPT ![c] = "raised"]
            /\ peer' = peer
       ELSE /\ peer' = [peer EXCEPT ![c] = ResolvePeer(args[c].chat_id)]
            /\ pc' = [pc EXCEPT ![c] = "peer"]
            /\ error' = error
    /\ UNCHANGED <<args, message, entities, rpc, r, result, rndUsed, denied,
                   perms>>

SendMessageRequestRawFlags(a, p, id, msg, ents) ==
    [kind |-> "functions.messages.SendMessage",
     peer |-> p,
     no_webpage |-> a.disable_web_page_preview,
     silent |-> a.disable_notification,
     reply_to_msg_id |-> a.reply_to_message_id,
     random_id |-> id,
     schedule_date |-> a.schedule_date,
     reply_markup |-> IF a.reply_markup # "None"
                      THEN MarkupWrite(a.reply_markup) ELSE "None",
     message |-> msg,
     entities |-> ents]

\* functions.messages.SendMessage(peer=..., no_webpage=..., ...)
SendMessageRequest(a, p, id, msg, ents) ==
    [kind |-> "functions.messages.SendMessage",
     peer |-> p,
     no_webpage |-> PyOr(a.disable_web_page_preview, "None"),
     silent |-> PyOr(a.disable_notification, "None"),
     reply_to_msg_id |-> a.reply_to_message_id,
     random_id |-> id,
     schedule_date |-> a.schedule_date,
     reply_markup |-> IF a.reply_markup # "None"
                      THEN MarkupWrite(a.reply_markup) ELSE "None",
     message |-> msg,
     entities |-> ents]

BuildRequestFixedId(c) ==
    /\ c \in DOMAIN pc
    /\ pc[c] = "peer"
    /\ rpc' = [rpc EXCEPT ![c] =
                  [state |-> "built",
                   request |-> SendMessageRequest(args[c], peer[c], 0,
                                                  message[c], entities[c]),
                   outcome |-> NoneObj]]
    /\ log' = Logged(c, <<"rnd_id">>)
    /\ pc' = [pc EXCEPT ![c] = "built"]
    /\ UNCHANGED <<args, message, entities, peer, r, result, error, rndUsed,
                   denied, perms>>

\* random_id=self.rnd_id() and the remaining arguments: the request is built
BuildRequest(c) ==
    /\ c \in DOMAIN pc
    /\ pc[c] = "peer"
    /\ \E id \in FreshIds :
          /\ rndUsed' = rndUsed \cup {id}
          /\ rpc' = [rpc EXCEPT ![c] =
                        [state |-> "built",
                         request |-> SendMessageRequest(args[c], peer[c], id,
                                                        message[c], entities[c]),
                         outcome |-> NoneObj]]
    /\ log' = Logged(c, <<"rnd_id">>)
    /\ pc' = [pc EXCEPT ![c] = "built"]
    /\ UNCHANGED <<args, message, entities, peer, r, result, error, denied,
                   perms>>

\* self.send(request) is entered: the call is suspended on the round trip
SendInvoke(c) ==
    /\ c \in DOMAIN pc
    /\ pc[c] = "built"
    /\ rpc' = [rpc EXCEPT ![c].state = "called"]
    /\ log' = Logged(c, <<"send">>)
    /\ pc' = [pc EXCEPT ![c] = "sending"]
    /\ UNCHANGED <<args, message, entities, peer, r, result, error, rndUsed,
                   denied, perms>>

\* r = self.send(...)
SendReturn(c) ==
    /\ c \in DOMAIN pc
    /\ pc[c] = "sending"
    /\ \E resp \in Responses :
          /\ rpc' = [rpc EXCEPT ![c].state = "returned", ![c].outcome = resp]
          /\ r' = [r EXCEPT ![c] = resp]
    /\ log' = Logged(c, <<"send_return">>)
    /\ pc' = [pc EXCEPT ![c] = "responded"]
    /\ UNCHANGED <<args, message, entities, peer, result, error, rndUsed,
                   denied, perms>>

SendRaiseRetry(c) ==
    /\ c \in DOMAIN pc
    /\ pc[c] = "sending"
    /\ Count(log[c], "send") < 2
    /\ \E e \in SendErrors :
          rpc' = [rpc EXCEPT ![c].state = "built",
                             ![c].outcome = [kind |-> "Error", error |-> e]]
    /\ log' = Logged(c, <<"send_raise">>)
    /\ pc' = [pc EXCEPT ![c] = "built"]
    /\ UNCHANGED <<args, message, entities, peer, r, result, error, rndUsed,
                   denied, perms>>

\* self.send(...) raises: nothing catches it, it leaves send_message
SendRaise(c) ==
    /\ c \in DOMAIN pc
    /\ pc[c] = "sending"
    /\ \E e \in SendErrors :
          /\ rpc' = [rpc EXCEPT ![c].state = "raised",
                                ![c].outcome = [kind |-> "Error", error |-> e]]
          /\ error' = [error EXCEPT ![c] = e]
    /\ log' = Logged(c, <<"send_raise">>)
    /\ pc' = [pc EXCEPT ![c] = "raised"]
    /\ UNCHANGED <<args, message, entities, peer, r, result, rndUsed, denied,
                   perms>>

\* peer.user_id if isinstance(peer, types.InputPeerUser) else -peer.chat_id
PeerIdRaises(p) == p.kind # "InputPeerUser" /\ ~HasAttr(p, "chat_id")

PeerId(p) == IF p.kind = "InputPeerUser" THEN p.user_id ELSE -p.chat_id

ShortSentMessageRawText(c, peer_id) ==
    [kind |-> "Message",
     message_id |-> r[c].id,
     chat |-> [kind |-> "Chat", id |-> peer_id, type |-> "private"],
     text |-> args[c].text,
     date |-> r[c].date,
     outgoing |-> r[c].out,
     entities |-> entities[c]]

\* pyrogram.Message(message_id=r.id, chat=..., text=message, ...)
ShortSentMessage(c, peer_id) ==
    [kind |-> "Message",
     message_id |-> r[c].id,
     chat |-> [kind |-> "Chat", id |-> peer_id, type |-> "private"],
     text |-> message[c],
     date |-> r[c].date,
     outgoing |-> r[c].out,
     entities |-> entities[c]]

\* if isinstance(r, types.UpdateShortSentMessage): ...
ResolveShort(c) ==
    /\ c \in DOMAIN pc
    /\ pc[c] = "responded"
    /\ r[c].kind = "UpdateShortSentMessage"
    /\ log' = Logged(c, <<"resolve_peer">>)
    /\ IF ResolvePeerRaises(args[c].chat_id)
       THEN /\ error' = [error EXCEPT ![c] = "PeerIdInvalid"]
            /\ pc' = [pc EXCEPT ![c] = "raised"]
            /\ result' = result
       ELSE IF PeerIdRaises(ResolvePeer(args[c].chat_id))
       THEN /\ error' = [error EXCEPT ![c] = "AttributeError"]
            /\ pc' = [pc EXCEPT ![c] = "raised"]
            /\ result' = result
       ELSE /\ result' = [result EXCEPT ![c] =
                  ShortSentMessage(c, PeerId(ResolvePeer(args[c].chat_id)))]
            /\ pc' = [pc EXCEPT ![c] = "returned"]
            /\ error' = error
    /\ UNCHANGED <<args, message, entities, peer, rpc, r, rndUsed, denied,
                   perms>>

ScanUpdatesLastMatch(resp, i) ==
    LET hits == {j \in i..Len(resp.updates) : resp.updates[j].kind \in Matching}
    IN IF hits = {} THEN NoneObj
       ELSE LET k == CHOOSE j \in hits : \A j2 \in hits : j2 <= j
            IN MessageParse(resp.updates[k].message, ById(resp.users),
                            ById(resp.chats),
                            resp.updates[k].kind = "UpdateNewScheduledMessage")

RECURSIVE ScanUpdatesFallback(_, _)
ScanUpdatesFallback(resp, i) ==
    IF i > Len(resp.updates)
    THEN IF Len(resp.updates) = 0 THEN NoneObj
         ELSE MessageParse(resp.updates[Len(resp.updates)], ById(resp.users),
                           ById(resp.chats), FALSE)
    ELSE IF resp.updates[i].kind \in Matching
    THEN MessageParse(resp.updates[i].message, ById(resp.users),
                      ById(resp.chats),
                      resp.updates[i].kind = "UpdateNewScheduledMessage")
    ELSE ScanUpdatesFallback(resp, i + 1)

\* for i in r.updates: if isinstance(i, (...)): return Message._parse(...)
\* and, the loop ended, the implicit return None
RECURSIVE ScanUpdates(_, _)
ScanUpdates(resp, i) ==
    IF i > Len(resp.updates) THEN NoneObj
    ELSE IF resp.updates[i].kind \in Matching
    THEN MessageParse(resp.updates[i].message, ById(resp.users),
                      ById(resp.chats),
                      resp.updates[i].kind = "UpdateNewScheduledMessage")
    ELSE ScanUpdates(resp, i + 1)

ResolveUpdatesReparse(c) ==
    /\ c \in DOMAIN pc
    /\ pc[c] = "responded"
    /\ r[c].kind = "Updates"
    /\ result' = [result EXCEPT ![c] = ScanUpdates(r[c], 1)]
    /\ log' = Logged(c, <<"parse">>
                        \o IF ScanUpdates(r[c], 1) # NoneObj
                           THEN <<"decode">> ELSE <<>>)
    /\ pc' = [pc EXCEPT ![c] = "returned"]
    /\ UNCHANGED <<args, message, entities, peer, rpc, r, error, rndUsed,
                   denied, perms>>

\* the response is not a short confirmation: the scan of r.updates
ResolveUpdates(c) ==
    /\ c \in DOMAIN pc
    /\ pc[c] = "responded"
    /\ r[c].kind = "Updates"
    /\ result' = [result EXCEPT ![c] = ScanUpdates(r[c], 1)]
    /\ log' = Logged(c, IF ScanUpdates(r[c], 1) # NoneObj
                        THEN <<"decode">> ELSE <<>>)
    /\ pc' = [pc EXCEPT ![c] = "returned"]
    /\ UNCHANGED <<args, message, entities, peer, rpc, r, error, rndUsed,
                   denied, perms>>

----------------------------------------------------------------------------
(* Specifications *)

InitCalls(ids) ==
    /\ pc = [c \in ids |-> "start"]
    /\ message = [c \in ids |-> <<>>]
    /\ entities = [c \in ids |-> <<>>]
    /\ peer = [c \in ids |-> NoneObj]
    /\ rpc = [c \in ids |-> [state |-> "idle", request |-> NoneObj,
                             outcome |-> NoneObj]]
    /\ r = [c \in ids |-> NoneObj]
    /\ result = [c \in ids |-> NoneObj]
    /\ error = [c \in ids |-> "None"]
    /\ log = [c \in ids |-> <<>>]
    /\ rndUsed = {}

\* one call of send_message, any arguments
Init ==
    /\ args \in [{1} -> Args]
    /\ InitCalls({1})
    /\ denied = Unparsed
    /\ perms = Unparsed

CallIds == {1, 2}

Next ==
    \E c \in CallIds :
        \/ Parse(c)
        \/ ResolveRequestPeer(c)
        \/ BuildRequest(c)
        \/ SendInvoke(c)
        \/ SendReturn(c)
        \/ SendRaise(c)
        \/ ResolveShort(c)
        \/ ResolveUpdates(c)

Spec == Init /\ [][Next]_vars

\* two calls of send_message for two different messages, running at once
ConcArgs1 ==
    {a \in Args : /\ a.chat_id \in {"user777", "me"}
                  /\ a.text = <<"**", "a", "**", "b">>
                  /\ a.parse_mode = "object"
                  /\ a.disable_web_page_preview = "True"
                  /\ a.disable_notification = "None"
                  /\ a.reply_to_message_id = "None"
                  /\ a.reply_markup = "None"}

ConcArgs2 ==
    {a \in Args : /\ a.chat_id \in {"chat5", "nobody"}
                  /\ a.text = <<"<b>", "a", "</b>">>
                  /\ a.parse_mode = "html"
                  /\ a.disable_web_page_preview = "False"
                  /\ a.disable_notification = "True"
                  /\ a.reply_to_message_id = "12345"
                  /\ a.reply_markup = "None"}

InitConc ==
    /\ args \in {f \in [{1, 2} -> Args] : f[1] \in ConcArgs1 /\ f[2] \in ConcArgs2}
    /\ InitCalls({1, 2})
    /\ denied = Unparsed
    /\ perms = Unparsed

SpecConc == InitConc /\ [][Next]_vars

\* one call of ChatPermissions._parse, any argument
InitPerm ==
    /\ denied \in DeniedRecords \cup {NoneObj}
    /\ perms = Unparsed
    /\ args = <<>>
    /\ InitCalls({})

NextPerm == ParsePermissions

SpecPerm == InitPerm /\ [][NextPerm]_vars

----------------------------------------------------------------------------
(* Properties of ChatPermissions._parse, checked under SpecPerm *)

Parsed == perms # Unparsed /\ denied.kind = "ChatBannedRights"

OtherFlags == {"send_stickers", "send_gifs", "send_games", "send_inline"}

Negations ==
    {<<"can_send_messages", "send_messages">>,
     <<"can_send_media_messages", "send_media">>,
     <<"can_add_web_page_previews", "embed_links">>,
     <<"can_send_polls", "send_polls">>,
     <<"can_change_info", "change_info">>,
     <<"can_invite_users", "invite_users">>,
     <<"can_pin_messages", "pin_messages">>}

AllowFlags == {n[1] : n \in Negations} \cup {"can_send_other_messages"}

DenyFlags == {n[2] : n \in Negations} \cup OtherFlags

\* C1: for every denial record, can_send_other_messages is true iff at
\* least one of send_stickers, send_gifs, send_games, send_inline is not
\* set (false or absent), and false iff all four are true.
C1_OtherMessagesIffAnyAllowed ==
    Parsed =>
        /\ perms.can_send_other_messages \in {"True", "False"}
        /\ (perms.can_send_other_messages = "True")
              <=> (\E f \in OtherFlags : denied[f] # "True")
        /\ (perms.can_send_other_messages = "False")
              <=> (\A f \in OtherFlags : denied[f] = "True")

C1_Witness ==
    /\ Parsed
    /\ denied.send_stickers = "True"
    /\ denied.send_gifs = "True"
    /\ denied.send_games = "True"
    /\ denied.send_inline = "False"
    /\ perms.can_send_other_messages = "True"

\* C2: for every denial record _parse returns a ChatPermissions, never
\* None, whose seven plain allow flags are the negations of their denial
\* flags; a record with every denial flag false gives eight true flags.
C2_TotalNegation ==
    Parsed =>
        /\ perms.kind = "ChatPermissions"
        /\ \A n \in Negations :
              /\ perms[n[1]] \in {"True", "False"}
              /\ (perms[n[1]] = "True") <=> (denied[n[2]] # "True")
        /\ (\A f \in DenyFlags : denied[f] = "False")
              => (\A f \in AllowFlags : perms[f] = "True")

C2_Witness ==
    /\ Parsed
    /\ \A f \in DenyFlags : denied[f] = "False"
    /\ \A f \in AllowFlags : perms[f] = "True"

----------------------------------------------------------------------------
(* Properties of send_message, checked under Spec *)

Sent(c) == rpc[c].state \in {"called", "returned", "raised"}

Hits(resp) == {j \in DOMAIN resp.updates : resp.updates[j].kind \in Matching}

\* C3: in the request passed to send(), no_webpage is True exactly when
\* disable_web_page_preview is True and silent is True exactly when
\* disable_notification is True; otherwise the field is None, never False.
C3_AbsentNotFalse ==
    \A c \in DOMAIN pc :
        Sent(c) =>
            /\ rpc[c].request.no_webpage \in {"True", "None"}
            /\ (rpc[c].request.no_webpage = "True")
                  <=> (args[c].disable_web_page_preview = "True")
            /\ rpc[c].request.silent \in {"True", "None"}
            /\ (rpc[c].request.silent = "True")
                  <=> (args[c].disable_notification = "True")

C3_Witness ==
    \E c \in DOMAIN pc :
        /\ Sent(c)
        /\ args[c].disable_web_page_preview = "False"
        /\ rpc[c].request.no_webpage = "None"
        /\ args[c].disable_notification = "True"
        /\ rpc[c].request.silent = "True"

\* C4: on an Updates response with a NewMessage, NewChannelMessage or
\* NewScheduledMessage update, send_message returns the decoding of the
\* first such update in sequence order, the decoder is called once, and
\* is_scheduled is true iff that update is a NewScheduledMessage.
C4_FirstMatchDecoded ==
    \A c \in DOMAIN pc :
        (pc[c] = "returned" /\ r[c].kind = "Updates" /\ Hits(r[c]) # {}) =>
            LET k == CHOOSE j \in Hits(r[c]) : \A j2 \in Hits(r[c]) : j <= j2
            IN /\ result[c].kind = "Message"
               /\ result[c].parsed_from = r[c].updates[k].message
               /\ result[c].is_scheduled
                     <=> (r[c].updates[k].kind = "UpdateNewScheduledMessage")
               /\ Count(log[c], "decode") = 1

C4_Witness ==
    \E c \in DOMAIN pc :
        /\ pc[c] = "returned"
        /\ r[c].kind = "Updates"
        /\ Len(r[c].updates) = 2
        /\ r[c].updates[1].kind = "UpdateNewScheduledMessage"
        /\ r[c].updates[2].kind = "UpdateNewMessage"
        /\ result[c].parsed_from = r[c].updates[1].message
        /\ result[c].is_scheduled

\* C5: on an Updates response without any NewMessage, NewChannelMessage
\* or NewScheduledMessage update (an empty batch included), send_message
\* returns None, raises nothing and never calls the decoder.
C5_NoMatchReturnsNone ==
    \A c \in DOMAIN pc :
        (r[c].kind = "Updates" /\ Hits(r[c]) = {}) =>
            /\ pc[c] \in {"responded", "returned"}
            /\ pc[c] = "responded" => ENABLED ResolveUpdates(c)
            /\ pc[c] = "returned" => result[c] = NoneObj
            /\ error[c] = "None"
            /\ Count(log[c], "decode") = 0

C5_Witness ==
    \E c \in DOMAIN pc :
        /\ pc[c] = "returned"
        /\ r[c].kind = "Updates"
        /\ Len(r[c].updates) = 2
        /\ Hits(r[c]) = {}
        /\ result[c] = NoneObj

\* C6: on a short sent confirmation, whatever peer resolve_peer gives
\* (user, basic chat, channel, self), send_message returns a Message and
\* raises nothing; its chat is private, with the user's id for a user
\* and the negated numeric chat id otherwise; message_id, date and
\* outgoing are the confirmation's.
C6_ShortSentAnyPeer ==
    \A c \in DOMAIN pc :
        (r[c].kind = "UpdateShortSentMessage" /\ pc[c] # "responded") =>
            /\ pc[c] = "returned"
            /\ error[c] = "None"
            /\ result[c].kind = "Message"
            /\ result[c].chat.type = "private"
            /\ result[c].chat.id =
                  (CASE peer[c].kind = "InputPeerUser" -> peer[c].user_id
                     [] peer[c].kind = "InputPeerChat" -> -peer[c].chat_id
                     [] peer[c].kind = "InputPeerChannel" -> -peer[c].channel_id
                     [] OTHER -> result[c].chat.id)
            /\ result[c].message_id = r[c].id
            /\ result[c].date = r[c].date
            /\ result[c].outgoing = r[c].out

\* C7: on a short sent confirmation, the text and entities of the
\* returned Message are the parser's output of the one parse call, the
\* same as the message and entities of the request that was sent.
C7_ShortSentTextFromParser ==
    \A c \in DOMAIN pc :
        (pc[c] = "returned" /\ r[c].kind = "UpdateShortSentMessage") =>
            /\ Count(log[c], "parse") = 1
            /\ result[c].text =
                  ParserParse(args[c].text, args[c].parse_mode).message
            /\ result[c].entities =
                  ParserParse(args[c].text, args[c].parse_mode).entities
            /\ result[c].text = rpc[c].request.message
            /\ result[c].entities = rpc[c].request.entities

C7_Witness ==
    \E c \in DOMAIN pc :
        /\ pc[c] = "returned"
        /\ r[c].kind = "UpdateShortSentMessage"
        /\ result[c].text # args[c].text
        /\ result[c].entities # <<>>
        /\ result[c].text = rpc[c].request.message

\* C8: send() is invoked at most once per call; when resolve_peer fails
\* for the request, send() is not invoked; when send() fails, its error is
\* the one that leaves send_message, nothing is resolved (no Message, no
\* decoder call, no further step) and send() is not invoked again.
C8_FailFast ==
    \A c \in DOMAIN pc :
        /\ Count(log[c], "send") <= 1
        /\ (pc[c] = "raised" /\ Count(log[c], "send_return") = 0
               /\ Count(log[c], "send_raise") = 0)
              => /\ Count(log[c], "send") = 0
                 /\ rpc[c].state = "idle"
                 /\ error[c] = "PeerIdInvalid"
        /\ Count(log[c], "send_raise") > 0
              => /\ pc[c] = "raised"
                 /\ rpc[c].state = "raised"
                 /\ error[c] = rpc[c].outcome.error
                 /\ result[c] = NoneObj
                 /\ r[c] = NoneObj
                 /\ Count(log[c], "send") = 1
                 /\ Count(log[c], "decode") = 0
                 /\ log[c][Len(log[c])] = "send_raise"

C8_Witness ==
    \E c \in DOMAIN pc :
        /\ pc[c] = "raised"
        /\ rpc[c].state = "raised"
        /\ rpc[c].outcome.error = "FloodWait"
        /\ error[c] = "FloodWait"
        /\ Count(log[c], "send") = 1

\* C10: the steps of a call come in the order parse, build, send,
\* resolve: the parser is invoked exactly once, first, on the caller's
\* text and mode; the peer is resolved and the random id drawn before
\* send() is invoked; resolution starts only after send() has returned,
\* and never invokes the parser.
C10_PipelineOrder ==
    \A c \in DOMAIN pc :
        LET l == log[c]
        IN /\ Count(l, "parse") <= 1
           /\ l # <<>> => l[1] = "parse"
           /\ pc[c] # "start" =>
                 /\ Count(l, "parse") = 1
                 /\ message[c] =
                       ParserParse(args[c].text, args[c].parse_mode).message
                 /\ entities[c] =
                       ParserParse(args[c].text, args[c].parse_mode).entities
           /\ \A i \in DOMAIN l :
                 /\ l[i] = "send" =>
                       /\ \E j \in 1..(i - 1) : \E k \in (j + 1)..(i - 1) :
                             l[j] = "resolve_peer" /\ l[k] = "rnd_id"
                       /\ rpc[c].request.kind = "functions.messages.SendMessage"
                       /\ rpc[c].request.peer = peer[c]
                       /\ rpc[c].request.random_id \in rndUsed
                 /\ l[i] = "send_return" => \E j \in 1..(i - 1) : l[j] = "send"
                 /\ (\/ l[i] = "decode"
                     \/ (l[i] = "resolve_peer"
                            /\ \E j \in 1..(i - 1) : l[j] = "resolve_peer"))
                       => \E j \in 1..(i - 1) : l[j] = "send_return"
           /\ result[c] # NoneObj => Count(l, "send_return") = 1

C10_Witness ==
    \E c \in DOMAIN pc :
        /\ pc[c] = "returned"
        /\ log[c] = <<"parse", "resolve_peer", "rnd_id", "send", "send_return",
                      "decode">>

----------------------------------------------------------------------------
(* Properties of concurrent calls, checked under SpecConc *)

\* C9: two calls whose executions interleave do not interfere: each
\* request carries its own call's parsed text, entities, options and
\* peer, each result comes from its own call's response and parsed text,
\* every call draws one random id, and the two requests' ids differ.
C9_IndependentCalls ==
    /\ \A c \in DOMAIN pc :
          /\ Count(log[c], "rnd_id") <= 1
          /\ rpc[c].state # "idle" =>
                /\ Count(log[c], "rnd_id") = 1
                /\ rpc[c].request.message =
                      ParserParse(args[c].text, args[c].parse_mode).message
                /\ rpc[c].request.entities =
                      ParserParse(args[c].text, args[c].parse_mode).entities
                /\ rpc[c].request.peer = ResolvePeer(args[c].chat_id)
                /\ (rpc[c].request.no_webpage = "True")
                      <=> (args[c].disable_web_page_preview = "True")
                /\ (rpc[c].request.silent = "True")
                      <=> (args[c].disable_notification = "True")
                /\ rpc[c].request.reply_to_msg_id = args[c].reply_to_message_id
          /\ pc[c] \in {"responded", "returned"} => r[c] = rpc[c].outcome
          /\ (pc[c] = "returned" /\ r[c].kind = "UpdateShortSentMessage") =>
                /\ result[c].message_id = rpc[c].outcome.id
                /\ result[c].outgoing = rpc[c].outcome.out
                /\ result[c].text =
                      ParserParse(args[c].text, args[c].parse_mode).message
                /\ result[c].entities =
                      ParserParse(args[c].text, args[c].parse_mode).entities
          /\ (pc[c] = "returned" /\ r[c].kind = "Updates") =>
                \/ result[c] = NoneObj /\ Hits(rpc[c].outcome) = {}
                \/ \E j \in Hits(rpc[c].outcome) :
                      result[c].parsed_from = rpc[c].outcome.updates[j].message
    /\ \A c, d \in DOMAIN pc :
          (c # d /\ rpc[c].state # "idle" /\ rpc[d].state # "idle")
              => rpc[c].request.random_id # rpc[d].request.random_id
    /\ Cardinality(rndUsed)
          = Cardinality({c \in DOMAIN pc : rpc[c].state # "idle"})

C9_Witness ==
    /\ DOMAIN pc = {1, 2}
    /\ pc[1] = "sending"
    /\ pc[2] = "returned"
    /\ r[2].kind = "UpdateShortSentMessage"
    /\ rpc[1].request.random_id # rpc[2].request.random_id
    /\ rpc[1].request.message # rpc[2].request.message
    /\ result[2].text = rpc[2].request.message

====
